---- MODULE Spec2Model ----
(***************************************************************************)
(* The lexer of bq2cst (src/src/lexer.rs).  A character is a one-character *)
(* string, a String or a Vec<char> is a sequence of characters, and the    *)
(* Lexer struct is a record that the scanning routines pass along.  The    *)
(* `?' operator of Rust is the first test of every routine: a lexer that   *)
(* carries a fault is handed back untouched.                               *)
(***************************************************************************)
EXTENDS Integers, Sequences, FiniteSets, TLC

VARIABLES input, position, line, column, type_declaration_depth, tokens,
          result, starts, depths

vars == <<input, position, line, column, type_declaration_depth, tokens,
          result, starts, depths>>

----------------------------------------------------------------------------
(* Characters and their classes.                                           *)

\* Option<char>::None, the value get_char gives past the end of the input.
None == "None"

\* The character U+0060, which a TLA+ string cannot hold.
Backtick == "BACKTICK"

LowerCase == <<"a", "b", "c", "d", "e", "f", "g", "h", "i", "j", "k", "l", "m",
               "n", "o", "p", "q", "r", "s", "t", "u", "v", "w", "x", "y", "z">>

UpperCase == <<"A", "B", "C", "D", "E", "F", "G", "H", "I", "J", "K", "L", "M",
               "N", "O", "P", "Q", "R", "S", "T", "U", "V", "W", "X", "Y", "Z">>

\* char::is_alphabetic, on the letters of ASCII.
Alphabetic == {LowerCase[i] : i \in DOMAIN LowerCase} \cup
              {UpperCase[i] : i \in DOMAIN UpperCase}

\* char::is_whitespace, on the white space of ASCII the model uses.
WhiteSpace == {" ", "\n", "\t"}

is_digit(ch) == ch \in {"0", "1", "2", "3", "4", "5", "6", "7", "8", "9"}

\* is_end_of_line that does not take the end of the input for an end of line.
is_end_of_line_strict(ch) == ch = "\n"

is_end_of_line(ch) == IF ch = None THEN TRUE ELSE ch = "\n"

is_valid_1st_char_of_ident(ch) == ch \in Alphabetic \/ ch = "_"

is_valid_char_of_ident(ch) == ch \in Alphabetic \/ is_digit(ch) \/ ch = "_"

\* is_whitespace that knows the blank only.
is_whitespace_blank(ch) == ch = " "

is_whitespace(ch) == ch \in WhiteSpace

\* char::to_uppercase and str::to_uppercase.
char_to_uppercase(ch) ==
    IF \E i \in DOMAIN LowerCase : LowerCase[i] = ch
    THEN UpperCase[CHOOSE i \in DOMAIN LowerCase : LowerCase[i] = ch]
    ELSE ch

to_uppercase(s) == [i \in 1..Len(s) |-> char_to_uppercase(s[i])]

\* str::trim_end: the string without its trailing white space.
RECURSIVE trim_end(_)
trim_end(s) ==
    IF s # <<>> /\ is_whitespace(s[Len(s)])
    THEN trim_end(SubSeq(s, 1, Len(s) - 1))
    ELSE s

----------------------------------------------------------------------------
(* Token, LexerError and the Lexer record.                                 *)

Token_new(l, c, literal) == [line |-> l, column |-> c, literal |-> literal]

\* Token::eof() is called without an argument (tokenize_code), so the token it
\* builds cannot depend on the cursor: an empty literal at a fixed position,
\* here 0, which is no position of the 1-based input.
Token_eof == [line |-> 0, column |-> 0, literal |-> <<>>]

LexerError_new(l, c, message) == [line |-> l, column |-> c, message |-> message]

LexerError_eof(l, c) == LexerError_new(l, c, "Unexpected EOF.")

\* The error slot of a lexer that carries no error.
NoError == [line |-> 0, column |-> 0, message |-> ""]

\* Lexer::new.  fault is "none" while the call runs normally, "err" once a
\* routine returned Err (held in err) and "panic" once the program panicked;
\* res is the String a read_ routine returned and some tells whether
\* next_token returned Some(token).  raised_by records the place of the code
\* that built the error or panicked: "next_char", "skip_escaped_char",
\* "read_identifier", or "unwrap" for tokens.last().unwrap().
Lexer_new ==
    [position |-> 0, line |-> 1, column |-> 1, type_declaration_depth |-> 0,
     tokens |-> <<>>, fault |-> "none", err |-> NoError, res |-> <<>>,
     some |-> FALSE, raised_by |-> "none"]

----------------------------------------------------------------------------
(* Cursor primitives.                                                      *)

construct_token(lx, l, c, literal) ==
    IF lx.fault # "none" THEN lx
    ELSE [lx EXCEPT !.tokens = Append(@, Token_new(l, c, literal)),
                    !.some = TRUE]

get_char(inp, lx, offset) ==
    IF lx.position + offset < Len(inp)
    THEN inp[lx.position + offset + 1]
    ELSE None

\* next_char that counts a newline as any other character.
next_char_one_line(inp, lx) ==
    IF lx.fault # "none" THEN lx
    ELSE IF lx.position < Len(inp)
    THEN [lx EXCEPT !.column = @ + 1, !.position = @ + 1]
    ELSE IF lx.position = Len(inp)
    THEN [lx EXCEPT !.fault = "err", !.err = LexerError_eof(lx.line, lx.column),
                    !.raised_by = "next_char"]
    ELSE [lx EXCEPT !.fault = "panic", !.raised_by = "next_char"]

\* next_char that steps over the end of the input once before it fails.
next_char_past_end(inp, lx) ==
    IF lx.fault # "none" THEN lx
    ELSE IF lx.position < Len(inp)
    THEN IF inp[lx.position + 1] = "\n"
         THEN [lx EXCEPT !.column = 1, !.line = @ + 1, !.position = @ + 1]
         ELSE [lx EXCEPT !.column = @ + 1, !.position = @ + 1]
    ELSE IF lx.position = Len(inp)
    THEN [lx EXCEPT !.column = @ + 1, !.position = @ + 1]
    ELSE [lx EXCEPT !.fault = "panic", !.raised_by = "next_char"]

next_char(inp, lx) ==
    IF lx.fault # "none" THEN lx
    ELSE IF lx.position < Len(inp)
    THEN IF inp[lx.position + 1] = "\n"
         THEN [lx EXCEPT !.column = 1, !.line = @ + 1, !.position = @ + 1]
         ELSE [lx EXCEPT !.column = @ + 1, !.position = @ + 1]
    ELSE IF lx.position = Len(inp)
    THEN [lx EXCEPT !.fault = "err", !.err = LexerError_eof(lx.line, lx.column),
                    !.raised_by = "next_char"]
    ELSE [lx EXCEPT !.fault = "panic", !.raised_by = "next_char"]

\* `for _ in 0..n { self.next_char()?; }'
RECURSIVE next_char_times(_, _, _)
next_char_times(inp, lx, n) ==
    IF n = 0 \/ lx.fault # "none" THEN lx
    ELSE next_char_times(inp, next_char(inp, lx), n - 1)

\* self.input[first_position..self.position].into_iter().collect()
slice(inp, first_position, lx) == SubSeq(inp, first_position + 1, lx.position)

with_res(inp, first_position, lx) ==
    IF lx.fault # "none" THEN lx
    ELSE [lx EXCEPT !.res = slice(inp, first_position, lx)]

RECURSIVE skip_whitespace(_, _)
skip_whitespace(inp, lx) ==
    IF lx.fault = "none" /\ is_whitespace(get_char(inp, lx, 0))
    THEN skip_whitespace(inp, next_char(inp, lx))
    ELSE lx

----------------------------------------------------------------------------
(* The read_ and skip_ routines.  Each takes the input and the lexer and   *)
(* gives the lexer back, its res field holding the String returned.        *)

RECURSIVE read_comment_loop(_, _)
read_comment_loop(inp, lx) ==
    IF lx.fault = "none" /\ ~is_end_of_line(get_char(inp, lx, 0))
    THEN read_comment_loop(inp, next_char(inp, lx))
    ELSE lx

read_comment(inp, lx) ==
    LET first_position == lx.position
        l1 == read_comment_loop(inp, lx)
    IN  IF l1.fault # "none" THEN l1
        ELSE [l1 EXCEPT !.res = trim_end(slice(inp, first_position, l1))]

RECURSIVE read_identifier_loop(_, _)
read_identifier_loop(inp, lx) ==
    IF lx.fault = "none" /\ is_valid_char_of_ident(get_char(inp, lx, 0))
    THEN read_identifier_loop(inp, next_char(inp, lx))
    ELSE lx

read_identifier(inp, lx) ==
    LET first_position == lx.position
        first_char == get_char(inp, lx, 0)
    IN  IF lx.fault # "none" THEN lx
        ELSE IF ~is_valid_1st_char_of_ident(first_char)
        THEN [lx EXCEPT !.fault = "err",
                        !.err = LexerError_new(lx.line, lx.column,
                                    "Invalid character as an identifier."),
                        !.raised_by = "read_identifier"]
        ELSE with_res(inp, first_position,
                      read_identifier_loop(inp, next_char(inp, lx)))

RECURSIVE read_multiline_comment_loop(_, _)
read_multiline_comment_loop(inp, lx) ==
    IF lx.fault = "none"
       /\ ~(get_char(inp, lx, 0) = "*" /\ get_char(inp, lx, 1) = "/")
    THEN read_multiline_comment_loop(inp, next_char(inp, lx))
    ELSE lx

read_multiline_comment(inp, lx) ==
    LET first_position == lx.position
        l1 == read_multiline_comment_loop(inp, lx)
    IN  with_res(inp, first_position, next_char(inp, next_char(inp, l1)))

skip_escaped_char(inp, lx) ==
    LET l1 == next_char(inp, lx)
        ch == get_char(inp, l1, 0)
        l2 == IF l1.fault # "none" THEN l1
              ELSE IF ch = "x" THEN next_char_times(inp, l1, 2)
              ELSE IF ch = "u" THEN next_char_times(inp, l1, 4)
              ELSE IF ch = "U" THEN next_char_times(inp, l1, 8)
              ELSE IF ch = "0" THEN next_char_times(inp, l1, 3)
              ELSE IF ch \in {"1", "2", "3", "4", "5", "6", "7"}
              THEN next_char_times(inp, l1, 3)
              ELSE IF ch = None
              THEN [l1 EXCEPT !.fault = "err",
                              !.err = LexerError_eof(l1.line, l1.column),
                              !.raised_by = "skip_escaped_char"]
              ELSE l1
    IN  next_char(inp, l2)

RECURSIVE read_multiline_string_loop(_, _, _)
read_multiline_string_loop(inp, lx, ch) ==
    IF lx.fault = "none"
       /\ ~(get_char(inp, lx, 0) = ch /\ get_char(inp, lx, 1) = ch
            /\ get_char(inp, lx, 2) = ch)
    THEN IF get_char(inp, lx, 0) = "\\"
         THEN read_multiline_string_loop(inp, skip_escaped_char(inp, lx), ch)
         ELSE read_multiline_string_loop(inp, next_char(inp, lx), ch)
    ELSE lx

read_multiline_string(inp, lx) ==
    LET first_position == lx.position
        ch == get_char(inp, lx, 0)
        l1 == read_multiline_string_loop(inp, next_char(inp, lx), ch)
    IN  with_res(inp, first_position, next_char_times(inp, l1, 3))

\* `while is_digit(&self.get_char(0)) { self.next_char()?; }'
RECURSIVE read_number_digits(_, _)
read_number_digits(inp, lx) ==
    IF lx.fault = "none" /\ is_digit(get_char(inp, lx, 0))
    THEN read_number_digits(inp, next_char(inp, lx))
    ELSE lx

read_number(inp, lx) ==
    LET first_position == lx.position
        l1 == read_number_digits(inp, lx)
        l2 == IF l1.fault = "none" /\ get_char(inp, l1, 0) = "."
              THEN read_number_digits(inp, next_char(inp, l1))
              ELSE l1
        l3 == IF l2.fault = "none" /\ get_char(inp, l2, 0) \in {"E", "e"}
              THEN next_char(inp, l2)
              ELSE l2
        l4 == IF l2.fault = "none" /\ get_char(inp, l2, 0) \in {"E", "e"}
              THEN read_number_digits(inp,
                       IF l3.fault = "none" /\ get_char(inp, l3, 0) \in {"+", "-"}
                       THEN next_char(inp, l3)
                       ELSE l3)
              ELSE l2
    IN  with_res(inp, first_position, l4)

RECURSIVE read_quoted_loop(_, _, _)
read_quoted_loop(inp, lx, quote) ==
    IF lx.fault = "none" /\ get_char(inp, lx, 0) # quote
    THEN IF get_char(inp, lx, 0) = "\\"
         THEN read_quoted_loop(inp, skip_escaped_char(inp, lx), quote)
         ELSE read_quoted_loop(inp, next_char(inp, lx), quote)
    ELSE lx

read_quoted(inp, lx) ==
    LET quote == get_char(inp, lx, 0)
        first_position == lx.position
        l1 == read_quoted_loop(inp, next_char(inp, lx), quote)
    IN  with_res(inp, first_position, next_char(inp, l1))

RECURSIVE read_parameter_loop(_, _)
read_parameter_loop(inp, lx) ==
    IF lx.fault = "none" /\ get_char(inp, lx, 0) = "@"
    THEN read_parameter_loop(inp, next_char(inp, lx))
    ELSE lx

\* read_parameter without the test for a quoted identifier.
read_parameter_plain(inp, lx) ==
    LET first_position == lx.position
        l1 == read_parameter_loop(inp, lx)
    IN  with_res(inp, first_position, read_identifier(inp, l1))

\* read_parameter taking first_position after the run of '@'.
read_parameter_name_only(inp, lx) ==
    LET l1 == read_parameter_loop(inp, lx)
        first_position == l1.position
        l2 == IF get_char(inp, l1, 0) = Backtick
              THEN read_quoted(inp, l1)
              ELSE read_identifier(inp, l1)
    IN  with_res(inp, first_position, l2)

read_parameter(inp, lx) ==
    LET first_position == lx.position
        l1 == read_parameter_loop(inp, lx)
        l2 == IF get_char(inp, l1, 0) = Backtick
              THEN read_quoted(inp, l1)
              ELSE read_identifier(inp, l1)
    IN  with_res(inp, first_position, l2)

----------------------------------------------------------------------------
(* next_token and tokenize_code.                                           *)

\* `self.next_char()?; self.construct_token(line, column, ch.to_string())'
single_token(inp, lx, l, c, ch) ==
    construct_token(next_char(inp, lx), l, c, <<ch>>)

\* `self.next_char()?; self.next_char()?; self.construct_token(line, column, s)'
double_token(inp, lx, l, c, literal) ==
    construct_token(next_char(inp, next_char(inp, lx)), l, c, literal)

\* `let literal = self.read_...()?; self.construct_token(line, column, literal)'
read_token(lx, l, c) == construct_token(lx, l, c, lx.res)

\* The '<' branch comparing the previous literal as it is written, without
\* to_uppercase.
less_than_case_sensitive(inp, lx, l, c, ch) ==
    IF get_char(inp, lx, 1) = "<" THEN double_token(inp, lx, l, c, <<"<", "<">>)
    ELSE IF get_char(inp, lx, 1) = "=" THEN double_token(inp, lx, l, c, <<"<", "=">>)
    ELSE IF get_char(inp, lx, 1) = ">" THEN double_token(inp, lx, l, c, <<"<", ">">>)
    ELSE IF lx.tokens = <<>>
    THEN [lx EXCEPT !.fault = "panic", !.raised_by = "unwrap"]
    ELSE IF lx.tokens[Len(lx.tokens)].literal
                \in {<<"A", "R", "R", "A", "Y">>, <<"S", "T", "R", "U", "C", "T">>}
    THEN single_token(inp, [lx EXCEPT !.type_declaration_depth = @ + 1], l, c, ch)
    ELSE single_token(inp, lx, l, c, ch)

\* The '<' branch of next_token.
less_than(inp, lx, l, c, ch) ==
    IF get_char(inp, lx, 1) = "<" THEN double_token(inp, lx, l, c, <<"<", "<">>)
    ELSE IF get_char(inp, lx, 1) = "=" THEN double_token(inp, lx, l, c, <<"<", "=">>)
    ELSE IF get_char(inp, lx, 1) = ">" THEN double_token(inp, lx, l, c, <<"<", ">">>)
    ELSE IF lx.tokens = <<>>
    THEN [lx EXCEPT !.fault = "panic", !.raised_by = "unwrap"]
    ELSE IF to_uppercase(lx.tokens[Len(lx.tokens)].literal)
                \in {<<"A", "R", "R", "A", "Y">>, <<"S", "T", "R", "U", "C", "T">>}
    THEN single_token(inp, [lx EXCEPT !.type_declaration_depth = @ + 1], l, c, ch)
    ELSE single_token(inp, lx, l, c, ch)

\* The '>' branch with its tests in the order of the '<' branch: the
\* two-character operators first, the depth last.
greater_than_combining(inp, lx, l, c, ch) ==
    IF get_char(inp, lx, 1) = ">" THEN double_token(inp, lx, l, c, <<">", ">">>)
    ELSE IF get_char(inp, lx, 1) = "=" THEN double_token(inp, lx, l, c, <<">", "=">>)
    ELSE IF 0 < lx.type_declaration_depth
    THEN single_token(inp, [lx EXCEPT !.type_declaration_depth = @ - 1], l, c, ch)
    ELSE single_token(inp, lx, l, c, ch)

\* The '>' branch of next_token.
greater_than(inp, lx, l, c, ch) ==
    IF 0 < lx.type_declaration_depth
    THEN single_token(inp, [lx EXCEPT !.type_declaration_depth = @ - 1], l, c, ch)
    ELSE IF get_char(inp, lx, 1) = ">" THEN double_token(inp, lx, l, c, <<">", ">">>)
    ELSE IF get_char(inp, lx, 1) = "=" THEN double_token(inp, lx, l, c, <<">", "=">>)
    ELSE single_token(inp, lx, l, c, ch)

\* Both arms of `'"' | '\''': a triple-quoted or a quoted string.
quotation(inp, lx, l, c, ch) ==
    IF get_char(inp, lx, 1) = ch /\ get_char(inp, lx, 2) = ch
    THEN read_token(read_multiline_string(inp, lx), l, c)
    ELSE read_token(read_quoted(inp, lx), l, c)

\* `match ch { ... }' of next_token, the cursor being on ch.
dispatch(inp, lx, l, c, ch) ==
    IF ch = "."
    THEN IF is_digit(get_char(inp, lx, 1))
         THEN read_token(read_number(inp, lx), l, c)
         ELSE single_token(inp, lx, l, c, ch)
    ELSE IF ch = "#" THEN read_token(read_comment(inp, lx), l, c)
    ELSE IF ch = Backtick THEN read_token(read_quoted(inp, lx), l, c)
    ELSE IF ch = "\"" THEN quotation(inp, lx, l, c, ch)
    ELSE IF ch = "'" THEN quotation(inp, lx, l, c, ch)
    ELSE IF ch = "-"
    THEN IF get_char(inp, lx, 1) = "-"
         THEN read_token(read_comment(inp, lx), l, c)
         ELSE single_token(inp, lx, l, c, ch)
    ELSE IF ch = "/"
    THEN IF get_char(inp, lx, 1) = "*"
         THEN read_token(read_multiline_comment(inp, lx), l, c)
         ELSE single_token(inp, lx, l, c, ch)
    ELSE IF ch = "|"
    THEN IF get_char(inp, lx, 1) = "|"
         THEN double_token(inp, lx, l, c, <<"|", "|">>)
         ELSE single_token(inp, lx, l, c, ch)
    ELSE IF ch = "<" THEN less_than(inp, lx, l, c, ch)
    ELSE IF ch = ">" THEN greater_than(inp, lx, l, c, ch)
    ELSE IF ch = "="
    THEN IF get_char(inp, lx, 1) = ">"
         THEN double_token(inp, lx, l, c, <<"=", ">">>)
         ELSE single_token(inp, lx, l, c, ch)
    ELSE IF ch = "!"
    THEN IF get_char(inp, lx, 1) = "="
         THEN double_token(inp, lx, l, c, <<"!", "=">>)
         ELSE single_token(inp, lx, l, c, ch)
    ELSE IF ch = "@" THEN read_token(read_parameter(inp, lx), l, c)
    ELSE IF is_digit(ch) THEN read_token(read_number(inp, lx), l, c)
    ELSE IF is_valid_1st_char_of_ident(ch)
    THEN read_token(read_identifier(inp, lx), l, c)
    ELSE single_token(inp, lx, l, c, ch)

\* next_token: some is TRUE when it returned Ok(Some(token)), FALSE when it
\* returned Ok(None); fault tells that it returned Err or panicked.
next_token(inp, lx) ==
    LET l0 == skip_whitespace(inp, [lx EXCEPT !.some = FALSE])
        ch == get_char(inp, l0, 0)
    IN  IF l0.fault # "none" \/ ch = None THEN l0
        ELSE dispatch(inp, l0, l0.line, l0.column, ch)

\* What tokenize_code returns: Ok(tokens), Err(error), or nothing (a panic).
Ok(toks) == [kind |-> "Ok", tokens |-> toks, error |-> NoError]

Err(e) == [kind |-> "Err", tokens |-> <<>>, error |-> e]

Panic == [kind |-> "Panic", tokens |-> <<>>, error |-> NoError]

Running == [kind |-> "Running", tokens |-> <<>>, error |-> NoError]

\* tokenize_code returning the tokens without the push of Token::eof().
push_nothing(toks) == toks

\* `self.tokens.push(Token::eof()); Ok(self.tokens)'
push_eof(toks) == Append(toks, Token_eof)

\* tokenize_code from the lexer lx on: the result of the whole call.
RECURSIVE tokenize_from(_, _)
tokenize_from(inp, lx) ==
    LET n == next_token(inp, lx)
    IN  IF n.fault = "err" THEN Err(n.err)
        ELSE IF n.fault = "panic" THEN Panic
        ELSE IF n.some THEN tokenize_from(inp, n)
        ELSE Ok(push_eof(n.tokens))

tokenize_code(inp) == tokenize_from(inp, Lexer_new)

----------------------------------------------------------------------------
(* The inputs of the model: every string of bounded length over an         *)
(* alphabet, and the inputs the specification gives as examples.           *)

MaxLen == 3
MaxTypeWords == 5
MaxQuoteLen == 4

\* ARRAY<STRUCT<INT64, INT64>>
ExArrayStruct == <<"A", "R", "R", "A", "Y", "<", "S", "T", "R", "U", "C", "T",
    "<", "I", "N", "T", "6", "4", ",", " ", "I", "N", "T", "6", "4", ">",
    ">">>

\* 1<<2
ExShiftLeft == <<"1", "<", "<", "2">>

\* 1>>2
ExShiftRight == <<"1", ">", ">", "2">>

\* @@session_var
ExSessionVar == <<"@", "@", "s", "e", "s", "s", "i", "o", "n", "_", "v", "a",
    "r">>

\* @ and the words quoted param between backticks
ExQuotedParam == <<"@", Backtick, "q", "u", "o", "t", "e", "d", " ", "p", "a",
    "r", "a", "m", Backtick>>

\* @ and the octal escape \101 between backticks
ExOctalParam == <<"@", Backtick, "\\", "1", "0", "1", Backtick>>

\* "abc
ExUnterminated == <<"\"", "a", "b", "c">>

\* 'a\x41b'
ExHexEscape == <<"'", "a", "\\", "x", "4", "1", "b", "'">>

\* '\101'
ExOctalEscape == <<"'", "\\", "1", "0", "1", "'">>

\* '''''' (an empty triple-quoted string)
ExEmptyTriple == <<"'", "'", "'", "'", "'", "'">>

\* ''''abc''''
ExFourQuotes == <<"'", "'", "'", "'", "a", "b", "c", "'", "'", "'", "'">>

\* '''line1\nline2''' x
ExMultiline == <<"'", "'", "'", "l", "i", "n", "e", "1", "\n", "l", "i", "n",
    "e", "2", "'", "'", "'", " ", "x">>

\* /* a\n*/ b
ExBlockComment == <<"/", "*", " ", "a", "\n", "*", "/", " ", "b">>

\* a /* b
ExOpenComment == <<"a", " ", "/", "*", " ", "b">>

\* # a  \n b
ExLineComment == <<"#", " ", "a", " ", " ", "\n", " ", "b">>

\* < 1
ExLessFirst == <<"<", " ", "1">>

\* @1
ExBadParam == <<"@", "1">>

\* array<struct<int>>=1>>2
ExTypeThenShift == <<"a", "r", "r", "a", "y", "<", "s", "t", "r", "u", "c", "t",
    "<", "i", "n", "t", ">", ">", "=", "1", ">", ">", "2">>

\* _a||b!=.5e+3|!"s"=>--c
ExOperators == <<"_", "a", "|", "|", "b", "!", "=", ".", "5", "e", "+", "3",
    "|", "!", "\"", "s", "\"", "=", ">", "-", "-", "c">>

Examples ==
    {ExOperators, ExLineComment, ExEmptyTriple, ExArrayStruct, ExShiftLeft, ExShiftRight, ExSessionVar, ExQuotedParam,
     ExOctalParam, ExUnterminated, ExHexEscape, ExOctalEscape, ExFourQuotes,
     ExMultiline, ExBlockComment, ExOpenComment, ExLessFirst, ExBadParam,
     ExTypeThenShift}

\* The concatenations of at most n members of the set V of strings.
RECURSIVE Words(_, _)
Words(V, n) ==
    IF n = 0 THEN {<<>>}
    ELSE LET W == Words(V, n - 1) IN W \cup {w \o v : w \in W, v \in V}

\* Characters of the classes that next_token tells apart.
Sigma ==
    {<<"a">>, <<"1">>, <<" ">>, <<"\n">>, <<".">>, <<"#">>, <<Backtick>>,
     <<"'">>, <<"-">>, <<"/">>, <<"*">>, <<"<">>, <<">">>, <<"=">>, <<"@">>,
     <<"\\">>}

\* Type declarations and the operators made of angle brackets.
SigmaType ==
    {<<"A", "R", "R", "A", "Y">>, <<"S", "t", "r", "u", "c", "t">>,
     <<"<">>, <<">">>, <<"=">>, <<" ">>}

\* Quoted forms, escape sequences, comments and parameters.
SigmaQuote ==
    {<<"'">>, <<Backtick>>, <<"\\">>, <<"x">>, <<"1">>, <<"@">>, <<"/">>,
     <<"*">>}

Inputs == Words(Sigma, MaxLen) \cup Examples

TypeInputs == Words(SigmaType, MaxTypeWords) \cup Examples

QuoteInputs == Words(SigmaQuote, MaxQuoteLen) \cup Examples

\* The inputs on which termination is checked: the bounded strings alone.
FairInputs == Words(Sigma, MaxLen)

----------------------------------------------------------------------------
(* The state machine: one tokenize_code call on one input.  starts and     *)
(* depths record, for each token of tokens, the offset of its first        *)
(* character and the type_declaration_depth at which it was dispatched.    *)

\* The Lexer that the variables hold.
Self ==
    [Lexer_new EXCEPT !.position = position, !.line = line, !.column = column,
                      !.type_declaration_depth = type_declaration_depth,
                      !.tokens = tokens]

\* The fields of the Lexer after a next_token call that gave n.
Store(n) ==
    /\ position' = n.position
    /\ line' = n.line
    /\ column' = n.column
    /\ type_declaration_depth' = n.type_declaration_depth

Start(I) ==
    /\ input \in I
    /\ position = Lexer_new.position
    /\ line = Lexer_new.line
    /\ column = Lexer_new.column
    /\ type_declaration_depth = Lexer_new.type_declaration_depth
    /\ tokens = Lexer_new.tokens
    /\ result = Running
    /\ starts = <<>>
    /\ depths = <<>>

Init == Start(Inputs)

InitType == Start(TypeInputs)

InitQuote == Start(QuoteInputs)

InitFair == Start(FairInputs)

\* next_token returns Ok(Some(token)): the loop of tokenize_code goes on.
NextTokenSome ==
    /\ result.kind = "Running"
    /\ \E n \in {next_token(input, Self)} :
           /\ n.fault = "none"
           /\ n.some
           /\ Store(n)
           /\ tokens' = n.tokens
           /\ starts' = Append(starts, skip_whitespace(input, Self).position)
           /\ depths' = Append(depths, type_declaration_depth)
    /\ UNCHANGED <<input, result>>

\* next_token returns Ok(None): tokenize_code pushes Token::eof() and returns
\* Ok(self.tokens).
NextTokenNone ==
    /\ result.kind = "Running"
    /\ \E n \in {next_token(input, Self)} :
           /\ n.fault = "none"
           /\ ~n.some
           /\ Store(n)
           /\ tokens' = push_eof(n.tokens)
           /\ result' = Ok(push_eof(n.tokens))
    /\ UNCHANGED <<input, starts, depths>>

\* next_token returns Err(error): `?' makes tokenize_code return it.
NextTokenErr ==
    /\ result.kind = "Running"
    /\ \E n \in {next_token(input, Self)} :
           /\ n.fault = "err"
           /\ Store(n)
           /\ result' = Err(n.err)
    /\ UNCHANGED <<input, tokens, starts, depths>>

\* next_token panics: tokenize_code returns nothing.
NextTokenPanic ==
    /\ result.kind = "Running"
    /\ \E n \in {next_token(input, Self)} :
           /\ n.fault = "panic"
           /\ Store(n)
           /\ result' = Panic
    /\ UNCHANGED <<input, tokens, starts, depths>>

Next == NextTokenSome \/ NextTokenNone \/ NextTokenErr \/ NextTokenPanic

Spec == Init /\ [][Next]_vars

SpecType == InitType /\ [][Next]_vars

SpecQuote == InitQuote /\ [][Next]_vars

\* tokenize_code runs to completion: a next_token call that can be made is
\* made.
SpecFair == InitFair /\ [][Next]_vars /\ WF_vars(Next)

----------------------------------------------------------------------------
(* The vocabulary of the properties, defined on the input alone.           *)

\* The 1-based line of the character at offset off: one more than the
\* number of newlines before it.
LineAt(inp, off) == 1 + Cardinality({i \in 1..off : inp[i] = "\n"})

\* Its 1-based column: one more than the number of characters since the last
\* newline before it, or since the start of the input.
ColumnAt(inp, off) ==
    LET newlines == {i \in 1..off : inp[i] = "\n"}
        last == IF newlines = {} THEN 0
                ELSE CHOOSE i \in newlines : \A j \in newlines : j <= i
    IN  1 + (off - last)

\* The offset at which the next token starts: the first offset from the
\* cursor on that holds no white space, or the length of the input.
NextStart ==
    CHOOSE q \in position..Len(input) :
        /\ q = Len(input) \/ input[q + 1] \notin WhiteSpace
        /\ \A p \in position..(q - 1) : input[p + 1] \in WhiteSpace

\* The character at offset off of the input, None past its end.
CharAt(off) == IF off < Len(input) THEN input[off + 1] ELSE None

\* A next_token call is about to dispatch on the character ch.
DispatchOn(ch) == result.kind = "Running" /\ CharAt(NextStart) = ch

\* The step appends exactly one token, whose literal is lit.
Emits(lit) ==
    /\ Len(tokens') = Len(tokens) + 1
    /\ SubSeq(tokens', 1, Len(tokens)) = tokens
    /\ tokens'[Len(tokens')].literal = lit

\* The literals of a sequence of tokens.
Literals(toks) == [i \in 1..Len(toks) |-> toks[i].literal]

----------------------------------------------------------------------------
(* C1.  A '>' dispatched while type_declaration_depth > 0 is emitted as    *)
(* the one-character token '>', consumes exactly one character and takes   *)
(* exactly one off the depth, whatever character follows it; and           *)
(* ARRAY<STRUCT<INT64, INT64>> gives ARRAY, <, STRUCT, <, INT64, ',',      *)
(* INT64, >, > and the end-of-stream token, never a '>>' token.            *)

C1_Step ==
    (DispatchOn(">") /\ type_declaration_depth > 0) =>
        /\ Emits(<<">">>)
        /\ position' = NextStart + 1
        /\ type_declaration_depth' = type_declaration_depth - 1
        /\ result' = Running

C1_Example ==
    (input = ExArrayStruct /\ result.kind # "Running") =>
        /\ result.kind = "Ok"
        /\ Literals(result.tokens) =
              << <<"A", "R", "R", "A", "Y">>, <<"<">>,
                 <<"S", "T", "R", "U", "C", "T">>, <<"<">>,
                 <<"I", "N", "T", "6", "4">>, <<",">>,
                 <<"I", "N", "T", "6", "4">>, <<">">>, <<">">>, <<>> >>

\* C1: a '>' dispatched at a positive depth is emitted alone, takes one
\* character and lowers the depth by one; the ARRAY<STRUCT<..>> example.
C1_Theorem == [][C1_Step]_vars /\ []C1_Example

\* A '>' was emitted at a positive depth with '=' right after it, and
\* another with '>' right after it.
C1_Witness ==
    /\ \E i \in 1..Len(starts) :
          depths[i] > 0 /\ CharAt(starts[i]) = ">" /\ CharAt(starts[i] + 1) = "="
    /\ \E i \in 1..Len(starts) :
          depths[i] > 0 /\ CharAt(starts[i]) = ">" /\ CharAt(starts[i] + 1) = ">"

----------------------------------------------------------------------------
(* C2.  type_declaration_depth is the number of single '<' tokens emitted  *)
(* right after a token that reads ARRAY or STRUCT in any case, less the    *)
(* number of '>' tokens emitted at a positive depth, and is never          *)
(* negative; at depth zero a '>' followed by '>' or '=' is emitted as one  *)
(* two-character token; 1<<2 gives 1, <<, 2 and 1>>2 gives 1, >>, 2.       *)

TypeKeywords == {<<"A", "R", "R", "A", "Y">>, <<"S", "T", "R", "U", "C", "T">>}

C2_Opened ==
    {i \in 2..Len(starts) :
        /\ tokens[i].literal = <<"<">>
        /\ to_uppercase(tokens[i - 1].literal) \in TypeKeywords}

C2_Closed ==
    {i \in 1..Len(starts) : tokens[i].literal = <<">">> /\ depths[i] > 0}

C2_Depth ==
    /\ type_declaration_depth = Cardinality(C2_Opened) - Cardinality(C2_Closed)
    /\ type_declaration_depth >= 0

C2_Step ==
    (DispatchOn(">") /\ type_declaration_depth = 0
        /\ CharAt(NextStart + 1) \in {">", "="}) =>
        /\ Emits(<<">", CharAt(NextStart + 1)>>)
        /\ position' = NextStart + 2
        /\ type_declaration_depth' = 0

C2_Examples ==
    /\ (input = ExShiftLeft /\ result.kind # "Running") =>
          /\ result.kind = "Ok"
          /\ Literals(result.tokens) = << <<"1">>, <<"<", "<">>, <<"2">>, <<>> >>
    /\ (input = ExShiftRight /\ result.kind # "Running") =>
          /\ result.kind = "Ok"
          /\ Literals(result.tokens) = << <<"1">>, <<">", ">">>, <<"2">>, <<>> >>

\* C2: the depth is the count of openings less the count of closings, never
\* negative; at depth zero '>>' and '>=' are one token; the shift examples.
C2_Theorem == [](C2_Depth /\ C2_Examples) /\ [][C2_Step]_vars

\* The depth went up and came back to zero, and a '>=' or a '>>' was then
\* emitted as one token.
C2_Witness ==
    \E j, k \in 1..Len(starts) :
        /\ j < k
        /\ depths[j] = 1 /\ tokens[j].literal = <<">">>
        /\ depths[k] = 0 /\ tokens[k].literal \in {<<">", ">">>, <<">", "=">>}

----------------------------------------------------------------------------
(* C3.  When tokenize_code succeeds, the tokens before the end-of-stream   *)
(* token are in input order and do not overlap, each literal is the        *)
(* substring of the input that starts at the token's start offset, and     *)
(* every character of the input that no literal covers is white space, so  *)
(* that the literals and the skipped white space rebuild the input.        *)

\* The offset just after the literal of token i.
EndOf(i) == starts[i] + Len(tokens[i].literal)

\* The input rebuilt from the literals, each preceded by the white space of
\* the input between the token before it and itself.
RECURSIVE Rebuilt(_)
Rebuilt(n) ==
    IF n = 0 THEN <<>>
    ELSE Rebuilt(n - 1)
         \o SelectSeq(SubSeq(input, (IF n = 1 THEN 0 ELSE EndOf(n - 1)) + 1, starts[n]),
                      LAMBDA ch : ch \in WhiteSpace)
         \o tokens[n].literal

\* C3: on success the literals are the substrings at the start offsets, in
\* order, without overlap, and what they leave out is white space.
C3_Theorem ==
    result.kind = "Ok" =>
        LET n == Len(starts)
            last == IF n = 0 THEN 0 ELSE EndOf(n)
        IN  /\ Len(result.tokens) = n + 1
            /\ \A i \in 1..n :
                  /\ result.tokens[i] = tokens[i]
                  /\ tokens[i].literal # <<>>
                  /\ EndOf(i) <= Len(input)
                  /\ tokens[i].literal = SubSeq(input, starts[i] + 1, EndOf(i))
                  /\ i < n => EndOf(i) <= starts[i + 1]
            /\ \A p \in 1..Len(input) :
                  (\A i \in 1..n : ~(starts[i] < p /\ p <= EndOf(i)))
                      => input[p] \in WhiteSpace
            /\ Rebuilt(n)
               \o SelectSeq(SubSeq(input, last + 1, Len(input)),
                            LAMBDA ch : ch \in WhiteSpace)
               = input

\* A successful call that skipped white space between two tokens and trimmed
\* the white space that ends a line comment.
C3_Witness ==
    /\ result.kind = "Ok"
    /\ \E i \in 1..Len(starts) :
          /\ i < Len(starts)
          /\ tokens[i].literal[1] = "#"
          /\ EndOf(i) + 1 < starts[i + 1]
          /\ CharAt(EndOf(i)) = " "

----------------------------------------------------------------------------
(* C4.  Every token emitted carries the 1-based line and column of its     *)
(* first character: one more than the number of newlines before its start  *)
(* offset, and one more than the number of characters since the last       *)
(* newline; also after a token whose literal holds newlines, and a token   *)
(* of several lines is reported at its opening delimiter.                  *)

\* C4: every token emitted carries the line and column of its first
\* character.
C4_Theorem ==
    /\ Len(starts) <= Len(tokens)
    /\ \A i \in 1..Len(starts) :
          /\ tokens[i].line = LineAt(input, starts[i])
          /\ tokens[i].column = ColumnAt(input, starts[i])

\* A token that does not start its line follows, on a later line, a token
\* whose literal holds a newline.
C4_Witness ==
    \E i \in 1..Len(starts) :
        /\ i < Len(starts)
        /\ \E k \in 1..Len(tokens[i].literal) : tokens[i].literal[k] = "\n"
        /\ tokens[i + 1].line > tokens[i].line
        /\ tokens[i + 1].column > 1

----------------------------------------------------------------------------
(* C5.  A successful tokenize_code call returns a sequence that ends with  *)
(* exactly one end-of-stream token, whose literal is empty.  As amended:   *)
(* its line and column are those Token::eof() gives it, the same for every *)
(* input, and not the final position of the cursor.                        *)

----------------------------------------------------------------------------
(* C6.  When the input ends inside a construct that was opened and not     *)
(* closed (a quoted form, a triple-quoted string, a block comment),        *)
(* tokenize_code returns an 'Unexpected EOF.' error and no token, and the  *)
(* error carries the line and column at which the end of the input was     *)
(* hit.                                                                    *)

\* The offsets from p on at which the characters a, or a b, or a b c follow
\* one another.
Occurs1(p, a) == \E q \in p..(Len(input) - 1) : CharAt(q) = a

Occurs2(p, a, b) ==
    \E q \in p..(Len(input) - 2) : CharAt(q) = a /\ CharAt(q + 1) = b

Occurs3(p, a) ==
    \E q \in p..(Len(input) - 3) :
        CharAt(q) = a /\ CharAt(q + 1) = a /\ CharAt(q + 2) = a

\* The construct that opens at offset s has no closing delimiter after its
\* opening delimiter.  For the block comment the closing delimiter is looked
\* for from the '*' of the opening one on: "spans to the first */".
Unclosed(s) ==
    LET ch == CharAt(s)
        triple == ch \in {"'", "\""} /\ CharAt(s + 1) = ch /\ CharAt(s + 2) = ch
    IN  \/ triple /\ ~Occurs3(s + 3, ch)
        \/ ch \in {"'", "\"", Backtick} /\ ~triple /\ ~Occurs1(s + 1, ch)
        \/ ch = "/" /\ CharAt(s + 1) = "*" /\ ~Occurs2(s + 1, "*", "/")

\* The call has returned the end-of-input error, without a token, at the
\* position of the end of the input.
EofError(r) ==
    /\ r.kind = "Err"
    /\ r.tokens = <<>>
    /\ r.error = [line |-> LineAt(input, Len(input)),
                  column |-> ColumnAt(input, Len(input)),
                  message |-> "Unexpected EOF."]

C6_Step == (result.kind = "Running" /\ Unclosed(NextStart)) => EofError(result')

\* C6: a step that opens a construct the input never closes returns the
\* end-of-input error, without a token, at the end of the input.
C6_Claim == [][C6_Step]_vars

----------------------------------------------------------------------------
(* C7.  The error 'Invalid character as an identifier.' of read_identifier *)
(* cannot be reached from the input.  As amended: it cannot be reached     *)
(* through the default branch of next_token, which calls read_identifier   *)
(* on an identifier-start character only; read_parameter reaches it, and   *)
(* tokenize_code returns it exactly when a run of '@' is followed by the   *)
(* end of the input or by a character that is neither a backtick nor an    *)
(* identifier-start character, with the position of that character.        *)

InvalidMessage == "Invalid character as an identifier."

\* The first offset from s on that holds no '@'.
AfterAts(s) ==
    CHOOSE q \in s..Len(input) :
        /\ CharAt(q) # "@"
        /\ \A p \in s..(q - 1) : CharAt(p) = "@"

C7_Step ==
    result.kind = "Running" =>
        LET q == AfterAts(NextStart)
            bad == /\ CharAt(NextStart) = "@"
                   /\ CharAt(q) \notin (Alphabetic \cup {"_", Backtick})
        IN  /\ bad <=> (result'.kind = "Err" /\ result'.error.message = InvalidMessage)
            /\ bad => result'.error = [line |-> LineAt(input, q),
                                       column |-> ColumnAt(input, q),
                                       message |-> InvalidMessage]

\* C7, as amended: the error is returned exactly for a run of '@' that no
\* backtick and no identifier-start character follows.
C7_Theorem == [][C7_Step]_vars

\* The claim as it was made: tokenize_code never returns that error.
C7_Original == ~(result.kind = "Err" /\ result.error.message = InvalidMessage)

\* The error was returned for a parameter that follows another token.
C7_Witness ==
    /\ result.kind = "Err"
    /\ result.error.message = InvalidMessage
    /\ tokens # <<>>
    /\ CharAt(position - 1) = "@"

----------------------------------------------------------------------------
(* C8.  Prefix stability: when tokenize_code succeeds on an input, then    *)
(* for every token t of the result it succeeds on the prefix of the input  *)
(* that ends where t ends, and gives for t and the tokens before it the    *)
(* same literals, lines and columns.                                       *)

\* C8: the prefix that ends with a token gives that token and those before
\* it as the full input does.
C8_Theorem ==
    result.kind = "Ok" =>
        \A i \in 1..Len(starts) :
            \A r \in {tokenize_code(SubSeq(input, 1, EndOf(i)))} :
                /\ r.kind = "Ok"
                /\ Len(r.tokens) >= i
                /\ SubSeq(r.tokens, 1, i) = SubSeq(result.tokens, 1, i)

\* A successful call with a token of several characters that another token
\* follows at once, so that the prefix cuts the input where the scanner
\* looked ahead.
C8_Witness ==
    /\ result.kind = "Ok"
    /\ \E i \in 1..Len(starts) :
          /\ i < Len(starts)
          /\ Len(tokens[i].literal) >= 2
          /\ EndOf(i) = starts[i + 1]

----------------------------------------------------------------------------
(* C9.  An input made of one or more '@' followed by a plain identifier or *)
(* by a backtick-quoted identifier gives exactly one token, whose literal  *)
(* is the whole input, and the end-of-stream token.                        *)

HexDigit ==
    {"0", "1", "2", "3", "4", "5", "6", "7", "8", "9",
     "a", "b", "c", "d", "e", "f", "A", "B", "C", "D", "E", "F"}

OctalDigit == {"0", "1", "2", "3", "4", "5", "6", "7"}

\* s[i..j] is the content of a quoted form: characters other than the
\* backtick and the backslash, and escape sequences: a backslash and x with
\* 2 hexadecimal digits, u with 4, U with 8, 3 octal digits, or one other
\* character.
RECURSIVE QuotedContent(_, _, _)
QuotedContent(s, i, j) ==
    LET hex(a, b) == b <= j /\ \A k \in a..b : s[k] \in HexDigit
    IN  IF i > j THEN TRUE
        ELSE IF s[i] = Backtick THEN FALSE
        ELSE IF s[i] # "\\" THEN QuotedContent(s, i + 1, j)
        ELSE IF i + 1 > j THEN FALSE
        ELSE IF s[i + 1] = "x" THEN hex(i + 2, i + 3) /\ QuotedContent(s, i + 4, j)
        ELSE IF s[i + 1] = "u" THEN hex(i + 2, i + 5) /\ QuotedContent(s, i + 6, j)
        ELSE IF s[i + 1] = "U" THEN hex(i + 2, i + 9) /\ QuotedContent(s, i + 10, j)
        ELSE IF s[i + 1] \in OctalDigit
        THEN /\ i + 3 <= j
             /\ s[i + 2] \in OctalDigit
             /\ s[i + 3] \in OctalDigit
             /\ QuotedContent(s, i + 4, j)
        ELSE QuotedContent(s, i + 2, j)

\* s is '@', once or more, and then a plain or a backtick-quoted identifier.
IsParameter(s) ==
    \E k \in 1..(Len(s) - 1) :
        /\ \A p \in 1..k : s[p] = "@"
        /\ \/ /\ s[k + 1] \in Alphabetic \cup {"_"}
              /\ \A p \in (k + 2)..Len(s) :
                    s[p] \in Alphabetic \cup OctalDigit \cup {"8", "9", "_"}
           \/ /\ k + 2 <= Len(s)
              /\ s[k + 1] = Backtick
              /\ s[Len(s)] = Backtick
              /\ QuotedContent(s, k + 2, Len(s) - 1)

\* C9: a parameter, plain or backtick-quoted, is one token that spans the
\* input.
C9_Claim ==
    IsParameter(input) =>
        \/ /\ result.kind = "Running"
           /\ tokens = <<>> \/ Literals(tokens) = <<input>>
        \/ /\ result.kind = "Ok"
           /\ Len(result.tokens) = 2
           /\ result.tokens[1].literal = input
           /\ result.tokens[2].literal = <<>>

----------------------------------------------------------------------------
(* C10.  On an input of white space only, the empty input among them,      *)
(* tokenize_code succeeds and returns exactly one token, the end-of-stream *)
(* token.                                                                  *)

OnlyWhiteSpace == \A p \in 1..Len(input) : input[p] \in WhiteSpace

\* C10: white space alone gives the end-of-stream token alone.
C10_Theorem ==
    OnlyWhiteSpace =>
        \/ result.kind = "Running" /\ tokens = <<>> /\ ENABLED NextTokenNone
        \/ /\ result.kind = "Ok"
           /\ Len(result.tokens) = 1
           /\ result.tokens[1].literal = <<>>
           /\ position = Len(input)

\* The call returned on an input of blanks and newlines.
C10_Witness ==
    /\ OnlyWhiteSpace
    /\ result.kind = "Ok"
    /\ \E p, q \in 1..Len(input) : input[p] = " " /\ input[q] = "\n"

----------------------------------------------------------------------------
(* C11.  A token of the triple-quoted string scanner begins with three     *)
(* delimiter characters and ends with three further ones that do not       *)
(* overlap them, so that its literal has six characters at least: six      *)
(* quotes in a row are one token, and an input that opens with four quotes *)
(* never gives the token of four quotes.                                   *)

\* The next token opens with three characters ch, a quote.
OpensTriple(ch) ==
    /\ ch \in {"'", "\""}
    /\ DispatchOn(ch)
    /\ CharAt(NextStart + 1) = ch
    /\ CharAt(NextStart + 2) = ch

\* lit is made of three ch, a content, and three further ch.
TripleQuoted(lit, ch) ==
    /\ Len(lit) >= 6
    /\ \A k \in 1..3 : lit[k] = ch /\ lit[Len(lit) - 3 + k] = ch

C11_Step ==
    \A ch \in {"'", "\""} :
        (OpensTriple(ch) /\ Len(tokens') = Len(tokens) + 1)
            => TripleQuoted(tokens'[Len(tokens')].literal, ch)

C11_Examples ==
    /\ (input = ExEmptyTriple /\ result.kind # "Running")
           => (result.kind = "Ok" /\ Literals(result.tokens) = <<input, <<>> >>)
    /\ input = ExFourQuotes
           => \A i \in 1..Len(tokens) : tokens[i].literal # <<"'", "'", "'", "'">>

\* C11: every token of read_multiline_string has three opening and three
\* separate closing delimiters.
C11_Claim == [][C11_Step]_vars /\ []C11_Examples

----------------------------------------------------------------------------
(* C12.  Inside a quoted form skip_escaped_char consumes the escape        *)
(* sequence and nothing after it: a backslash and x with 2 characters, u   *)
(* with 4, U with 8, 3 octal digits, or one other character.  The          *)
(* character after the escape is still looked at as the closing delimiter, *)
(* so that '\101' and 'a\x41b' are each one token, the whole input.        *)

\* The number of characters of an escape sequence after its backslash, c
\* being the first of them.
EscapeWidth(c) ==
    IF c = "x" THEN 3
    ELSE IF c = "u" THEN 5
    ELSE IF c = "U" THEN 9
    ELSE IF c \in OctalDigit THEN 3
    ELSE 1

\* The index of the delimiter q that closes a quoted form of s whose content
\* goes on at index i, escape sequences being skipped as a whole; 0 if s ends
\* before.
RECURSIVE QuoteEnd(_, _, _)
QuoteEnd(s, q, i) ==
    IF i > Len(s) THEN 0
    ELSE IF s[i] = q THEN i
    ELSE IF s[i] # "\\" THEN QuoteEnd(s, q, i + 1)
    ELSE IF i + 1 > Len(s) THEN 0
    ELSE QuoteEnd(s, q, i + 1 + EscapeWidth(s[i + 1]))

\* The next token opens with one delimiter q, not with three.
OpensQuoted(q) ==
    /\ q \in {"'", "\"", Backtick}
    /\ DispatchOn(q)
    /\ q = Backtick \/ ~(CharAt(NextStart + 1) = q /\ CharAt(NextStart + 2) = q)

C12_Step ==
    \A q \in {"'", "\"", Backtick} :
        \A e \in {QuoteEnd(input, q, NextStart + 2)} :
            (OpensQuoted(q) /\ e > 0)
                => Emits(SubSeq(input, NextStart + 1, e))

C12_Examples ==
    (input \in {ExOctalEscape, ExHexEscape} /\ result.kind # "Running")
        => (result.kind = "Ok" /\ Literals(result.tokens) = <<input, <<>> >>)

\* C12: a quoted form ends at the first delimiter that follows its escape
\* sequences, each of the width the escape has.
C12_Claim == [][C12_Step]_vars /\ []C12_Examples

----------------------------------------------------------------------------
(* C13.  A '<' that is the first token of the input and is not followed by *)
(* '<', '=' or '>' is emitted as the one-character token '<' and leaves    *)
(* type_declaration_depth as it was; looking up the previous token never   *)
(* fails or aborts the call when there is no token yet.                    *)

\* The next token is a single '<' and no token was emitted before it.
LessThanFirst ==
    /\ DispatchOn("<")
    /\ CharAt(NextStart + 1) \notin {"<", "=", ">"}
    /\ tokens = <<>>

C13_Step ==
    LessThanFirst =>
        /\ Emits(<<"<">>)
        /\ result'.kind = "Running"
        /\ position' = NextStart + 1
        /\ type_declaration_depth' = type_declaration_depth

\* C13: a '<' without a previous token is emitted as '<' at an unchanged
\* depth, and the call is never aborted.
C13_Claim == [][C13_Step]_vars /\ [](result.kind # "Panic")

----------------------------------------------------------------------------
(* C14.  Every 'Unexpected EOF.' error is raised by next_char, called with *)
(* the cursor at the end of the input, and only while a construct is       *)
(* scanned that was opened and not closed.  No input without a quote, a    *)
(* double quote, a backtick and the two characters that open a block       *)
(* comment makes tokenize_code return that error.                          *)

EofMessage == "Unexpected EOF."

\* The index of the last of three delimiters ch in a row that close a
\* triple-quoted string of s whose content goes on at index i; 0 if s ends
\* before.
RECURSIVE TripleEnd(_, _, _)
TripleEnd(s, ch, i) ==
    IF i + 2 > Len(s) THEN 0
    ELSE IF s[i] = ch /\ s[i + 1] = ch /\ s[i + 2] = ch THEN i + 2
    ELSE IF s[i] # "\\" THEN TripleEnd(s, ch, i + 1)
    ELSE TripleEnd(s, ch, i + 1 + EscapeWidth(s[i + 1]))

\* The construct that opens at offset s is not closed before the input ends:
\* a triple-quoted string, a quoted form, a parameter with a quoted name, or a
\* block comment.
Unterminated(s) ==
    LET ch == CharAt(s)
        triple == ch \in {"'", "\""} /\ CharAt(s + 1) = ch /\ CharAt(s + 2) = ch
    IN  \/ triple /\ TripleEnd(input, ch, s + 4) = 0
        \/ ch \in {"'", "\"", Backtick} /\ ~triple /\ QuoteEnd(input, ch, s + 2) = 0
        \/ /\ ch = "@"
           /\ CharAt(AfterAts(s)) = Backtick
           /\ QuoteEnd(input, Backtick, AfterAts(s) + 2) = 0
        \/ ch = "/" /\ CharAt(s + 1) = "*" /\ ~Occurs2(s + 2, "*", "/")

\* The step returns the end-of-input error.
ReturnsEof == result'.kind = "Err" /\ result'.error.message = EofMessage

\* The error is built by next_char alone, the cursor at the end of the input.
C14_RaisedByNextChar ==
    (result.kind = "Running" /\ ReturnsEof) =>
        /\ next_token(input, Self).raised_by = "next_char"
        /\ position' = Len(input)

\* The error is returned only from within a construct that is not closed.
C14_InsideUnclosed ==
    (result.kind = "Running" /\ ReturnsEof) => Unterminated(NextStart)

\* The input has no character that opens a quoted form or a block comment.
NothingToClose ==
    /\ \A p \in 1..Len(input) : input[p] \notin {"'", "\"", Backtick}
    /\ ~Occurs2(0, "/", "*")

C14_NoError ==
    NothingToClose => ~(result.kind = "Err" /\ result.error.message = EofMessage)

\* C14: the end-of-input error comes from next_char only, and only from
\* within a construct that was opened and not closed.
C14_Claim ==
    [][C14_RaisedByNextChar /\ C14_InsideUnclosed]_vars /\ []C14_NoError

----------------------------------------------------------------------------
(* C15.  Progress and termination: a next_token call that returns a token  *)
(* has moved the cursor by one character at least and appended exactly one *)
(* token, of non-empty literal; hence tokenize_code ends after at most     *)
(* len(input) such calls, with Ok(tokens) or with Err(error).              *)

\* The step is a next_token call that returned Some(token).
ReturnsToken == result.kind = "Running" /\ result'.kind = "Running"

C15_Step ==
    ReturnsToken =>
        /\ position' >= position + 1
        /\ Len(tokens') = Len(tokens) + 1
        /\ SubSeq(tokens', 1, Len(tokens)) = tokens
        /\ tokens'[Len(tokens')].literal # <<>>

\* starts holds one entry for each call that returned a token.
C15_Bound == Len(starts) <= Len(input)

C15_Returned == result.kind \in {"Ok", "Err"}

\* C15: every call that returns a token makes progress, and tokenize_code
\* returns Ok or Err after len(input) such calls at most.
C15_Claim ==
    /\ [][C15_Step]_vars
    /\ [](C15_Bound /\ result.kind \in {"Running", "Ok", "Err"})
    /\ <>C15_Returned

----------------------------------------------------------------------------
(* C16.  In every reachable state 0 <= position <= len(input); position    *)
(* never decreases, and next_char never moves it past the end of the       *)
(* input, so that the panic branch of next_char is never taken, whatever   *)
(* the input, one that ends in the middle of an escape sequence of fixed   *)
(* width among them.                                                       *)

C16_Range == position \in 0..Len(input)

\* A next_token call leaves the cursor where it was or further on, inside
\* the input, and if it fails it is not by the panic of next_char.
C16_Step ==
    /\ position' >= position
    /\ position' <= Len(input)
    /\ result.kind = "Running" =>
           \A n \in {next_token(input, Self)} :
               /\ n.position \in position..Len(input)
               /\ ~(n.fault = "panic" /\ n.raised_by = "next_char")

\* C16: the cursor stays within the input and never goes back; next_char
\* never panics.
C16_Theorem == []C16_Range /\ [][C16_Step]_vars

\* The input ended inside an escape sequence of fixed width, the first of a
\* quoted form: the call returned the error with the cursor at the end of the
\* input.
C16_Witness ==
    /\ result.kind = "Err"
    /\ result.error.message = EofMessage
    /\ position = Len(input)
    /\ \E p \in 1..(Len(input) - 1) :
          /\ input[p] = "\\"
          /\ input[p + 1] \in {"x", "u", "U"} \cup OctalDigit
          /\ Len(input) - p < EscapeWidth(input[p + 1])
          /\ input[1] \in {"'", "\"", Backtick}
          /\ \A k \in 2..(p - 1) : input[k] \notin {input[1], "\\"}

====
